---- MODULE Spec2Model ----
(***************************************************************************)
(* FinGenius: a Flask application over five record tables (Expense,        *)
(* Income, Goal, Investment, Budget) owned by User rows, behind a          *)
(* Flask-Login session gate.  The model is the database (one set of rows   *)
(* per table), the browser sessions, the requests that are between two     *)
(* database commits, and the response of the last handler step.            *)
(*                                                                         *)
(* A handler with a single commit is one step.  register (two commits,     *)
(* and an absence check before the first), the POST of budget_planner (a   *)
(* conditional commit, then the update commit) and update_budget (a        *)
(* lookup, then an insert the table does not constrain) are split, so      *)
(* requests of other sessions interleave between their steps.              *)
(* Amounts are Python floats (db.Float): binary floating point, round to   *)
(* nearest, ties to even.  The model keeps the rounding rule and scales    *)
(* the 53-bit significand down to Precision bits, so that sums round       *)
(* within the bounded amounts.                                             *)
(***************************************************************************)
EXTENDS Integers, Sequences, FiniteSets, TLC

\* ------------------------------------------------------------------ bounds
MaxUsers == 2
MaxRecords == 2
MaxGateRecords == 1
MaxSummaryRows == 3
MaxBudgetPageRows == 2
MaxSuggestionRows == 2
\* The bits of a float's significand (53 in binary64).
Precision == 3

\* ------------------------------------------------------------ input domains
Sessions == {"s1", "s2"}
Usernames == {"alice", "bob"}
Emails == {"a@x.org", "b@x.org"}
Passwords == {"pw1", "pw2"}
\* The registration forms submitted: a username, an email, a password.
RegistrationForms ==
    {<< "alice", "a@x.org", "pw1" >>, << "bob", "b@x.org", "pw2" >>,
     << "bob", "a@x.org", "pw2" >>}
Methods == {"GET", "POST"}
\* The rows the summary is taken over: amounts below and near 2^Precision.
SummaryAmounts == {2, 7}
SummaryExpenseCategories == {"Food", "Housing"}
SummaryIncomeCategories == {"Salary", "Gifts"}
SummaryInvestmentTypes == {"Stocks", "Bonds"}
\* The rows the budget page is taken over: the Food budget of the caller, and
\* expenses of a default and of another category.
BudgetPageBudgets == {-2, 0, 4, 5, 10}
BudgetPageExpenseAmounts == {-1, 0, 3, 5, 7}
BudgetPageCategories == {"Food", "Pets"}
\* The rows the suggestions are taken over.
SuggestionExpenseAmounts == {-2, 2, 5}
SuggestionExpenseCategories == {"Food", "Pets"}
SuggestionIncomeAmounts == {-4, 4, 10}
ExpenseCategoryInputs == {"Food"}
IncomeCategoryInputs == {"Salary"}
InvestmentTypeInputs == {"Stocks"}
GoalNames == {"car"}
DateStrs == {"2024-01-15"}
\* POST /budget forms: at most one budget_<category> field, the rest absent.
BudgetFormCategories == {"Food"}
BudgetAmountStrs == {"5"}
\* POST /api/budget bodies: at most one category, default or not.
BudgetJsonCategories == {"Pets"}
BudgetJsonAmounts == {2}

\* ------------------------------------------------------------ app.py data
default_expense_categories ==
    << "Housing", "Transportation", "Food", "Utilities", "Insurance",
       "Healthcare", "Debt Payments", "Savings", "Personal", "Entertainment",
       "Education", "Clothing", "Gifts/Donations", "Miscellaneous" >>

default_income_categories ==
    << "Salary", "Freelance", "Business", "Investments", "Rental",
       "Gifts", "Other" >>

Range(seq) == {seq[i] : i \in DOMAIN seq}

\* An optional value (Python None or a value): <<>> or <<v>>.
NoneVal == << >>
Some(v) == << v >>

\* ------------------------------------------------------------------ state
VARIABLES
    users,        \* User rows
    expenses,     \* Expense rows
    incomes,      \* Income rows
    goals,        \* Goal rows
    investments,  \* Investment rows
    budgets,      \* Budget rows
    session,      \* per browser session: Flask-Login's user id and 'username'
    req,          \* per browser session: its request between two commits
    last          \* the handler step taken last and its response

vars == << users, expenses, incomes, goals, investments, budgets, session, req, last >>
tables == << users, expenses, incomes, goals, investments, budgets >>
records == << expenses, incomes, goals, investments, budgets >>

\* ---------------------------------------------------------------- helpers
MaxOf(S) == CHOOSE m \in S : \A x \in S : x <= m

\* The integer primary key of a new row: one more than the largest in use.
NewId(table) == IF table = {} THEN 1 ELSE MaxOf({r.id : r \in table}) + 1

\* The rows of a table in primary-key order, as the query returns them.
RECURSIVE Rows(_)
Rows(table) ==
    IF table = {} THEN << >>
    ELSE LET r == CHOOSE x \in table : \A y \in table : x.id <= y.id
         IN << r >> \o Rows(table \ {r})

\* Query.first(): the row with the least primary key.
first(rows) == CHOOSE r \in rows : \A x \in rows : r.id <= x.id

\* A dict as a set of <<key, value>> pairs with distinct keys.
Keys(dict) == {kv[1] : kv \in dict}
Get(dict, key, default) ==
    IF key \in Keys(dict) THEN (CHOOSE kv \in dict : kv[1] = key)[2] ELSE default

\* A check that accepts every password.
check_password_hash_any(pwhash, password) == TRUE

\* werkzeug.security: the stored hash is checked against the password.
generate_password_hash(password) == << "pbkdf2", password >>
check_password_hash(pwhash, password) == pwhash = << "pbkdf2", password >>

\* datetime.strptime(s, '%Y-%m-%d').date() and date.strftime('%Y-%m-%d').
strptime(date_str) ==
    CASE date_str = "2024-01-15" -> << 2024, 1, 15 >>
      [] date_str = "2025-06-01" -> << 2025, 6, 1 >>
strftime(date) ==
    CASE date = << 2024, 1, 15 >> -> "2024-01-15"
      [] date = << 2025, 6, 1 >> -> "2025-06-01"

\* datetime.now().strftime('%Y-%m-%d'), the default of a missing 'date'.
TodayStr == "2025-06-01"

\* float(amount_str) if amount_str and amount_str.strip() else 0
FormAmount(amount_str) ==
    CASE amount_str = "5" -> 5
      [] amount_str = "0" -> 0
      [] OTHER -> 0

Anonymous == 0
NoSession == [_user_id |-> Anonymous, username |-> NoneVal]
Idle == [op |-> "idle", pc |-> "idle", username |-> "", email |-> "",
         password |-> "", uid |-> Anonymous, form |-> {}, pending |-> << >>]

Response(op, s, uid, arg, status, to, body) ==
    [op |-> op, sid |-> s, uid |-> uid, arg |-> arg, status |-> status,
     to |-> to, body |-> body]

\* load_user: the User row of the id the session holds, if there is one.
load_user(user_id) == {u \in users : u.id = user_id}

\* The gate left open: every session counts as logged in.
is_authenticated_always(s) == TRUE

\* current_user.id, Anonymous when the session holds no known user.
current_user(s) ==
    IF load_user(session[s]._user_id) = {} THEN Anonymous
    ELSE session[s]._user_id

is_authenticated(s) == current_user(s) # Anonymous

\* The query without its filter: every row of the table.
filter_by_no_user(table, user_id) == table

\* get_user_data / Model.query.filter_by(user_id=...).all()
filter_by_user(table, user_id) == {r \in table : r.user_id = user_id}

\* The query without its id filter.
filter_by_any_id_user(table, id, user_id) == {r \in table : r.user_id = user_id}

\* The query without its user_id filter.
filter_by_id_any_user(table, id, user_id) == {r \in table : r.id = id}

\* Model.query.filter_by(id=..., user_id=current_user.id).first()
filter_by_id_user(table, id, user_id) ==
    {r \in table : r.id = id /\ r.user_id = user_id}

\* @login_required on an anonymous session: redirect to the login view.
unauthorized(s, op) ==
    /\ last' = Response(op, s, Anonymous, 0, 302, "login", << >>)
    /\ UNCHANGED << tables, session, req >>

Init ==
    /\ users = {}
    /\ expenses = {}
    /\ incomes = {}
    /\ goals = {}
    /\ investments = {}
    /\ budgets = {}
    /\ session = [s \in Sessions |-> NoSession]
    /\ req = [s \in Sessions |-> Idle]
    /\ last = Response("start", "s1", Anonymous, 0, 0, "", << >>)

\* ---------------------------------------------------------- authentication
\* login, app.py 109-131
login(s, method, username, password) ==
    /\ req[s] = Idle
    /\ IF is_authenticated(s)
       THEN /\ last' = Response("login", s, current_user(s), 0, 302, "index", << >>)
            /\ UNCHANGED << tables, session, req >>
       ELSE IF method = "POST"
       THEN LET found == {u \in users : u.username = username}
            IN IF /\ found # {}
                  /\ check_password_hash(first(found).password_hash, password)
               THEN LET user == first(found)
                    IN /\ session' = [session EXCEPT ![s] =
                              [_user_id |-> user.id, username |-> Some(user.username)]]
                       /\ last' = Response("login", s, Anonymous, user.id, 302, "index", << >>)
                       /\ UNCHANGED << tables, req >>
               ELSE /\ last' = Response("login", s, Anonymous, 0, 200, "", << >>)
                    /\ UNCHANGED << tables, session, req >>
       ELSE /\ last' = Response("login", s, Anonymous, 0, 200, "", << >>)
            /\ UNCHANGED << tables, session, req >>

\* A logout that forgets to clear the session.
logout_user_keeps(sess) == sess

\* logout_user() and session.pop('username', None), app.py 183-185
logout_user(sess) == [sess EXCEPT !._user_id = Anonymous, !.username = NoneVal]

\* logout, app.py 179-187
logout(s) ==
    /\ req[s] = Idle
    /\ IF ~is_authenticated(s) THEN unauthorized(s, "logout")
       ELSE /\ session' = [session EXCEPT ![s] = logout_user(session[s])]
            /\ last' = Response("logout", s, current_user(s), 0, 302, "login", << >>)
            /\ UNCHANGED << tables, req >>

\* A users table without its unique constraints: every insert is accepted.
user_unique_any(username, email) == TRUE

\* The unique=True columns of User, models.py 8-9: a commit that would give two
\* rows one username or one email raises IntegrityError.
user_unique_ok(username, email) ==
    \A u \in users : u.username # username /\ u.email # email

\* register, app.py 133-155: the redirect, the page, and the two absence checks.
register(s, method, username, email, password) ==
    /\ req[s] = Idle
    /\ IF is_authenticated(s)
       THEN /\ last' = Response("register", s, current_user(s), 0, 302, "index", << >>)
            /\ UNCHANGED << tables, session, req >>
       ELSE IF method = "POST"
       THEN IF \/ {u \in users : u.username = username} # {}
               \/ {u \in users : u.email = email} # {}
            THEN /\ last' = Response("register", s, Anonymous, 0, 200, "", << >>)
                 /\ UNCHANGED << tables, session, req >>
            ELSE /\ Cardinality(users)
                      + Cardinality({x \in Sessions : req[x].pc = "commit_user"}) < MaxUsers
                 /\ req' = [req EXCEPT ![s] =
                        [Idle EXCEPT !.op = "register", !.pc = "commit_user",
                                     !.username = username, !.email = email,
                                     !.password = password]]
                 /\ last' = Response("register", s, Anonymous, 0, 0, "", << >>)
                 /\ UNCHANGED << tables, session >>
       ELSE /\ last' = Response("register", s, Anonymous, 0, 200, "", << >>)
            /\ UNCHANGED << tables, session, req >>

\* register, app.py 157-165: the new User row and the first commit.
register_commit_user(s) ==
    /\ req[s].op = "register"
    /\ req[s].pc = "commit_user"
    /\ IF user_unique_ok(req[s].username, req[s].email)
       THEN LET new_user == [id |-> NewId(users),
                             username |-> req[s].username,
                             email |-> req[s].email,
                             password_hash |-> generate_password_hash(req[s].password)]
            IN /\ users' = users \cup {new_user}
               /\ req' = [req EXCEPT ![s].pc = "commit_budgets", ![s].uid = new_user.id]
               /\ last' = Response("register", s, Anonymous, new_user.id, 0, "", << >>)
               /\ UNCHANGED << records, session >>
       ELSE /\ req' = [req EXCEPT ![s] = Idle]
            /\ last' = Response("register", s, Anonymous, 0, 500, "", << >>)
            /\ UNCHANGED << tables, session >>

\* Budget rows of amounts[c] for the categories cats[1..Len(cats)], with
\* the primary keys from `id` on, in the order they were added to the session.
NewBudgets(cats, amounts, user_id, id) ==
    {[id |-> id + i - 1, category |-> cats[i], amount |-> amounts[cats[i]],
      user_id |-> user_id] : i \in DOMAIN cats}

Zero == [c \in Range(default_expense_categories) |-> 0]

\* register, app.py 167-175: the default budgets and the second commit.
register_commit_budgets(s) ==
    /\ req[s].op = "register"
    /\ req[s].pc = "commit_budgets"
    /\ budgets' = budgets \cup
           NewBudgets(default_expense_categories, Zero, req[s].uid, NewId(budgets))
    /\ req' = [req EXCEPT ![s] = Idle]
    /\ last' = Response("register", s, Anonymous, req[s].uid, 302, "login", << >>)
    /\ UNCHANGED << users, expenses, incomes, goals, investments, session >>

\* ------------------------------------------------------ expenses and income
TotalRecords ==
    Cardinality(expenses) + Cardinality(incomes) + Cardinality(goals)
        + Cardinality(investments)

\* Expense(description, amount, category, date, user_id=current_user.id), committed.
new_expense(body, user_id) ==
    [id |-> NewId(expenses),
     description |-> Get(body, "description", ""),
     amount |-> Get(body, "amount", 0),
     category |-> Get(body, "category", ""),
     date |-> strptime(Get(body, "date", TodayStr)),
     user_id |-> user_id]

\* The dictionary get_expenses and add_expense build of a row.
expense_dict(r) ==
    [id |-> r.id, description |-> r.description, amount |-> r.amount,
     category |-> r.category, date |-> strftime(r.date)]

\* expense_tracker, app.py 189-219: the page (GET) or a new row from the form (POST).
expense_tracker(s, method, body) ==
    /\ req[s] = Idle
    /\ IF ~is_authenticated(s) THEN unauthorized(s, "expense_tracker")
       ELSE IF method = "POST"
       THEN /\ expenses' = expenses \cup {new_expense(body, current_user(s))}
            /\ last' = Response("expense_tracker", s, current_user(s), NewId(expenses), 302,
                                "expense_tracker", << >>)
            /\ UNCHANGED << users, incomes, goals, investments, budgets, session, req >>
       ELSE /\ last' = Response("expense_tracker", s, current_user(s), 0, 200, "", << >>)
            /\ UNCHANGED << tables, session, req >>

\* get_expenses, app.py 221-238
get_expenses(s) ==
    /\ req[s] = Idle
    /\ IF ~is_authenticated(s) THEN unauthorized(s, "get_expenses")
       ELSE /\ last' = Response("get_expenses", s, current_user(s), 0, 200, "",
                  LET rows == Rows(filter_by_user(expenses, current_user(s)))
                  IN [i \in DOMAIN rows |-> expense_dict(rows[i])])
            /\ UNCHANGED << tables, session, req >>

\* add_expense, app.py 240-272
add_expense(s, body) ==
    /\ req[s] = Idle
    /\ IF ~is_authenticated(s) THEN unauthorized(s, "add_expense")
       ELSE /\ expenses' = expenses \cup {new_expense(body, current_user(s))}
            /\ last' = Response("add_expense", s, current_user(s), NewId(expenses), 200, "",
                                << expense_dict(new_expense(body, current_user(s))) >>)
            /\ UNCHANGED << users, incomes, goals, investments, budgets, session, req >>

\* delete_expense, app.py 274-285
delete_expense(s, expense_id) ==
    /\ req[s] = Idle
    /\ IF ~is_authenticated(s) THEN unauthorized(s, "delete_expense")
       ELSE LET found == filter_by_id_user(expenses, expense_id, current_user(s))
            IN IF found # {}
               THEN /\ expenses' = expenses \ {first(found)}
                    /\ last' = Response("delete_expense", s, current_user(s), expense_id,
                                        200, "", << >>)
                    /\ UNCHANGED << users, incomes, goals, investments, budgets, session, req >>
               ELSE /\ last' = Response("delete_expense", s, current_user(s), 0, 404, "", << >>)
                    /\ UNCHANGED << tables, session, req >>

\* Income(description, amount, category, date, user_id=current_user.id), committed.
new_income(body, user_id) ==
    [id |-> NewId(incomes),
     description |-> Get(body, "description", ""),
     amount |-> Get(body, "amount", 0),
     category |-> Get(body, "category", ""),
     date |-> strptime(Get(body, "date", TodayStr)),
     user_id |-> user_id]

\* The dictionary get_incomes and add_income build of a row.
income_dict(r) ==
    [id |-> r.id, description |-> r.description, amount |-> r.amount,
     category |-> r.category, date |-> strftime(r.date)]

\* income_tracker, app.py 287-317: the page (GET) or a new row from the form (POST).
income_tracker(s, method, body) ==
    /\ req[s] = Idle
    /\ IF ~is_authenticated(s) THEN unauthorized(s, "income_tracker")
       ELSE IF method = "POST"
       THEN /\ incomes' = incomes \cup {new_income(body, current_user(s))}
            /\ last' = Response("income_tracker", s, current_user(s), NewId(incomes), 302,
                                "income_tracker", << >>)
            /\ UNCHANGED << users, expenses, goals, investments, budgets, session, req >>
       ELSE /\ last' = Response("income_tracker", s, current_user(s), 0, 200, "", << >>)
            /\ UNCHANGED << tables, session, req >>

\* get_incomes, app.py 319-336
get_incomes(s) ==
    /\ req[s] = Idle
    /\ IF ~is_authenticated(s) THEN unauthorized(s, "get_incomes")
       ELSE /\ last' = Response("get_incomes", s, current_user(s), 0, 200, "",
                  LET rows == Rows(filter_by_user(incomes, current_user(s)))
                  IN [i \in DOMAIN rows |-> income_dict(rows[i])])
            /\ UNCHANGED << tables, session, req >>

\* add_income, app.py 338-370
add_income(s, body) ==
    /\ req[s] = Idle
    /\ IF ~is_authenticated(s) THEN unauthorized(s, "add_income")
       ELSE /\ incomes' = incomes \cup {new_income(body, current_user(s))}
            /\ last' = Response("add_income", s, current_user(s), NewId(incomes), 200, "",
                                << income_dict(new_income(body, current_user(s))) >>)
            /\ UNCHANGED << users, expenses, goals, investments, budgets, session, req >>

\* delete_income, app.py 372-383
delete_income(s, income_id) ==
    /\ req[s] = Idle
    /\ IF ~is_authenticated(s) THEN unauthorized(s, "delete_income")
       ELSE LET found == filter_by_id_user(incomes, income_id, current_user(s))
            IN IF found # {}
               THEN /\ incomes' = incomes \ {first(found)}
                    /\ last' = Response("delete_income", s, current_user(s), income_id,
                                        200, "", << >>)
                    /\ UNCHANGED << users, expenses, goals, investments, budgets, session, req >>
               ELSE /\ last' = Response("delete_income", s, current_user(s), 0, 404, "", << >>)
                    /\ UNCHANGED << tables, session, req >>

\* ------------------------------------------------------------------ goals
\* Goal(name, target_amount, current_amount, target_date, description, user_id)
new_goal(body, user_id) ==
    [id |-> NewId(goals),
     name |-> Get(body, "name", ""),
     target_amount |-> Get(body, "target_amount", 0),
     current_amount |-> Get(body, "current_amount", 0),
     target_date |-> IF Get(body, "target_date", "") # ""
                     THEN Some(strptime(Get(body, "target_date", "")))
                     ELSE NoneVal,
     description |-> Get(body, "description", ""),
     user_id |-> user_id]

\* The dictionary get_goals, add_goal and update_goal build of a row.
goal_dict(r) ==
    [id |-> r.id, name |-> r.name, target_amount |-> r.target_amount,
     current_amount |-> r.current_amount,
     target_date |-> IF r.target_date # NoneVal THEN Some(strftime(r.target_date[1]))
                     ELSE NoneVal,
     description |-> r.description]

\* goal_tracker, app.py 385-419
goal_tracker(s, method, body) ==
    /\ req[s] = Idle
    /\ IF ~is_authenticated(s) THEN unauthorized(s, "goal_tracker")
       ELSE IF method = "POST"
       THEN /\ goals' = goals \cup {new_goal(body, current_user(s))}
            /\ last' = Response("goal_tracker", s, current_user(s), NewId(goals), 302,
                                "goal_tracker", << >>)
            /\ UNCHANGED << users, expenses, incomes, investments, budgets, session, req >>
       ELSE /\ last' = Response("goal_tracker", s, current_user(s), 0, 200, "", << >>)
            /\ UNCHANGED << tables, session, req >>

\* get_goals, app.py 421-439
get_goals(s) ==
    /\ req[s] = Idle
    /\ IF ~is_authenticated(s) THEN unauthorized(s, "get_goals")
       ELSE /\ last' = Response("get_goals", s, current_user(s), 0, 200, "",
                  LET rows == Rows(filter_by_user(goals, current_user(s)))
                  IN [i \in DOMAIN rows |-> goal_dict(rows[i])])
            /\ UNCHANGED << tables, session, req >>

\* add_goal, app.py 441-480
add_goal(s, body) ==
    /\ req[s] = Idle
    /\ IF ~is_authenticated(s) THEN unauthorized(s, "add_goal")
       ELSE /\ goals' = goals \cup {new_goal(body, current_user(s))}
            /\ last' = Response("add_goal", s, current_user(s), NewId(goals), 200, "",
                                << goal_dict(new_goal(body, current_user(s))) >>)
            /\ UNCHANGED << users, expenses, incomes, investments, budgets, session, req >>

\* The update with its `in data` tests dropped: every field is assigned what
\* data.get gives, the default when the key is absent.
updated_goal_unconditional(goal, data) ==
    [goal EXCEPT
       !.name = Get(data, "name", ""),
       !.target_amount = Get(data, "target_amount", 0),
       !.current_amount = Get(data, "current_amount", 0),
       !.target_date = IF Get(data, "target_date", "") # ""
                       THEN Some(strptime(Get(data, "target_date", "")))
                       ELSE NoneVal,
       !.description = Get(data, "description", "")]

\* update_goal, app.py 491-501: the fields whose keys are in the body.
updated_goal(goal, data) ==
    [goal EXCEPT
       !.name = IF "name" \in Keys(data) THEN Get(data, "name", "") ELSE @,
       !.target_amount = IF "target_amount" \in Keys(data)
                         THEN Get(data, "target_amount", 0) ELSE @,
       !.current_amount = IF "current_amount" \in Keys(data)
                          THEN Get(data, "current_amount", 0) ELSE @,
       !.target_date = IF "target_date" \in Keys(data)
                       THEN IF Get(data, "target_date", "") # ""
                            THEN Some(strptime(Get(data, "target_date", "")))
                            ELSE NoneVal
                       ELSE @,
       !.description = IF "description" \in Keys(data)
                       THEN Get(data, "description", "") ELSE @]

\* update_goal, app.py 482-517
update_goal(s, goal_id, data) ==
    /\ req[s] = Idle
    /\ IF ~is_authenticated(s) THEN unauthorized(s, "update_goal")
       ELSE LET found == filter_by_id_user(goals, goal_id, current_user(s))
            IN IF found # {}
               THEN /\ goals' = (goals \ {first(found)})
                                   \cup {updated_goal(first(found), data)}
                    /\ last' = Response("update_goal", s, current_user(s), goal_id, 200, "",
                                        << goal_dict(updated_goal(first(found), data)) >>)
                    /\ UNCHANGED << users, expenses, incomes, investments, budgets, session, req >>
               ELSE /\ last' = Response("update_goal", s, current_user(s), 0, 404, "",
                                        << >>)
                    /\ UNCHANGED << tables, session, req >>

\* delete_goal, app.py 519-530
delete_goal(s, goal_id) ==
    /\ req[s] = Idle
    /\ IF ~is_authenticated(s) THEN unauthorized(s, "delete_goal")
       ELSE LET found == filter_by_id_user(goals, goal_id, current_user(s))
            IN IF found # {}
               THEN /\ goals' = goals \ {first(found)}
                    /\ last' = Response("delete_goal", s, current_user(s), goal_id, 200, "",
                                        << >>)
                    /\ UNCHANGED << users, expenses, incomes, investments, budgets, session, req >>
               ELSE /\ last' = Response("delete_goal", s, current_user(s), 0, 404, "",
                                        << >>)
                    /\ UNCHANGED << tables, session, req >>

\* ------------------------------------------------------------ investments
\* Investment(name, type, amount, purchase_date, current_value, notes, user_id);
\* current_value defaults to the amount.
new_investment(body, user_id) ==
    [id |-> NewId(investments),
     name |-> Get(body, "name", ""),
     type |-> Get(body, "type", ""),
     amount |-> Get(body, "amount", 0),
     purchase_date |-> strptime(Get(body, "purchase_date", "")),
     current_value |-> Get(body, "current_value", Get(body, "amount", 0)),
     notes |-> Get(body, "notes", ""),
     user_id |-> user_id]

\* The dictionary get_investments, add_investment and update_investment build.
investment_dict(r) ==
    [id |-> r.id, name |-> r.name, type |-> r.type, amount |-> r.amount,
     purchase_date |-> strftime(r.purchase_date),
     current_value |-> r.current_value, notes |-> r.notes]

\* investment_tracker, app.py 532-571
investment_tracker(s, method, body) ==
    /\ req[s] = Idle
    /\ IF ~is_authenticated(s) THEN unauthorized(s, "investment_tracker")
       ELSE IF method = "POST"
       THEN /\ investments' = investments \cup {new_investment(body, current_user(s))}
            /\ last' = Response("investment_tracker", s, current_user(s),
                                NewId(investments), 302, "investment_tracker", << >>)
            /\ UNCHANGED << users, expenses, incomes, goals, budgets, session, req >>
       ELSE /\ last' = Response("investment_tracker", s, current_user(s), 0, 200, "",
                                << >>)
            /\ UNCHANGED << tables, session, req >>

\* get_investments, app.py 573-592
get_investments(s) ==
    /\ req[s] = Idle
    /\ IF ~is_authenticated(s) THEN unauthorized(s, "get_investments")
       ELSE /\ last' = Response("get_investments", s, current_user(s), 0, 200, "",
                  LET rows == Rows(filter_by_user(investments, current_user(s)))
                  IN [i \in DOMAIN rows |-> investment_dict(rows[i])])
            /\ UNCHANGED << tables, session, req >>

\* add_investment, app.py 594-632
add_investment(s, body) ==
    /\ req[s] = Idle
    /\ IF ~is_authenticated(s) THEN unauthorized(s, "add_investment")
       ELSE /\ investments' = investments \cup {new_investment(body, current_user(s))}
            /\ last' = Response("add_investment", s, current_user(s), NewId(investments),
                                200, "",
                                << investment_dict(new_investment(body, current_user(s))) >>)
            /\ UNCHANGED << users, expenses, incomes, goals, budgets, session, req >>

\* update_investment, app.py 643-655: the fields whose keys are in the body.
updated_investment(investment, data) ==
    [investment EXCEPT
       !.name = IF "name" \in Keys(data) THEN Get(data, "name", "") ELSE @,
       !.type = IF "type" \in Keys(data) THEN Get(data, "type", "") ELSE @,
       !.amount = IF "amount" \in Keys(data) THEN Get(data, "amount", 0) ELSE @,
       !.purchase_date = IF "purchase_date" \in Keys(data)
                         THEN strptime(Get(data, "purchase_date", "")) ELSE @,
       !.current_value = IF "current_value" \in Keys(data)
                         THEN Get(data, "current_value", 0) ELSE @,
       !.notes = IF "notes" \in Keys(data) THEN Get(data, "notes", "") ELSE @]

\* update_investment, app.py 634-672
update_investment(s, investment_id, data) ==
    /\ req[s] = Idle
    /\ IF ~is_authenticated(s) THEN unauthorized(s, "update_investment")
       ELSE LET found == filter_by_id_user(investments, investment_id, current_user(s))
            IN IF found # {}
               THEN /\ investments' = (investments \ {first(found)})
                                   \cup {updated_investment(first(found), data)}
                    /\ last' = Response("update_investment", s, current_user(s),
                                        investment_id, 200, "",
                                        << investment_dict(updated_investment(first(found), data)) >>)
                    /\ UNCHANGED << users, expenses, incomes, goals, budgets, session, req >>
               ELSE /\ last' = Response("update_investment", s, current_user(s),
                                        0, 404, "", << >>)
                    /\ UNCHANGED << tables, session, req >>

\* delete_investment, app.py 674-685
delete_investment(s, investment_id) ==
    /\ req[s] = Idle
    /\ IF ~is_authenticated(s) THEN unauthorized(s, "delete_investment")
       ELSE LET found == filter_by_id_user(investments, investment_id, current_user(s))
            IN IF found # {}
               THEN /\ investments' = investments \ {first(found)}
                    /\ last' = Response("delete_investment", s, current_user(s),
                                        investment_id, 200, "", << >>)
                    /\ UNCHANGED << users, expenses, incomes, goals, budgets, session, req >>
               ELSE /\ last' = Response("delete_investment", s, current_user(s),
                                        0, 404, "", << >>)
                    /\ UNCHANGED << tables, session, req >>

\* ---------------------------------------------------------------- budgets
\* {budget.category: budget.amount for budget in user_budgets}: for a category
\* with several rows, the amount of the row read last.
budget_dict(user_budgets) ==
    {<< c, (LET rows == {b \in user_budgets : b.category = c}
            IN CHOOSE b \in rows : \A x \in rows : x.id <= b.id).amount >>
        : c \in {b.category : b \in user_budgets}}

\* budget_planner, app.py 803-811: the default categories that have no entry.
missing_categories(user_budgets) ==
    LET keys == Keys(budget_dict(user_budgets))
    IN SelectSeq(default_expense_categories, LAMBDA c : c \notin keys)

\* budget_planner, app.py 813: len(budget_dict) != len(default_expense_categories),
\* budget_dict holding by now every default category.
ensure_commits(user_budgets) ==
    Cardinality(Keys(budget_dict(user_budgets)) \cup Range(default_expense_categories))
        # Len(default_expense_categories)

\* The loop of update_budget (883-894) and of budget_planner (818-832): each
\* category's first row gets the amount, a category with no row gets a new row.
RECURSIVE set_budgets(_, _, _)
set_budgets(rows, items, user_id) ==
    IF items = << >> THEN rows
    ELSE LET category == Head(items)[1]
             amount == Head(items)[2]
             found == {b \in rows : b.category = category /\ b.user_id = user_id}
         IN set_budgets(
                IF found # {}
                THEN (rows \ {first(found)}) \cup {[first(found) EXCEPT !.amount = amount]}
                ELSE rows \cup {[id |-> NewId(rows), category |-> category,
                                 amount |-> amount, user_id |-> user_id]},
                Tail(items), user_id)

\* The spacing of the floats around a magnitude x >= 0.
RECURSIVE ulp(_)
ulp(x) == IF x < 2 ^ Precision THEN 1 ELSE 2 * ulp(x \div 2)

\* The float nearest to x, ties to the even significand.
round_half_even(x) ==
    LET a == IF x < 0 THEN 0 - x ELSE x
        u == ulp(a)
        q == a \div u
        r == a % u
        m == IF 2 * r < u THEN q
             ELSE IF 2 * r > u THEN q + 1
             ELSE IF q % 2 = 0 THEN q ELSE q + 1
    IN IF x < 0 THEN 0 - m * u ELSE m * u

\* a + b and a - b on floats.
float_add(a, b) == round_half_even(a + b)
float_sub(a, b) == round_half_even(a - b)

\* sum(...) over a list of floats: left to right from 0, each addition rounded
\* (CPython from 3.12 on compensates the rounding error of the partial sums;
\* both give the exact sum where no partial sum rounds).
RECURSIVE sum(_)
sum(numbers) ==
    IF numbers = << >> THEN 0
    ELSE float_add(sum(SubSeq(numbers, 1, Len(numbers) - 1)), numbers[Len(numbers)])

\* The category test dropped: every expense is counted in every row.
spending_by_category_all(user_expenses) ==
    [c \in Range(default_expense_categories) |->
        sum([i \in DOMAIN user_expenses |-> user_expenses[i].amount])]

\* budget_planner, app.py 838-843: the spending of each default category, from
\* 0, over the expenses of the user in query order; an expense of a category
\* that is no default category is skipped.
spending_by_category(user_expenses) ==
    [c \in Range(default_expense_categories) |->
        LET Of(e) == e.category = c
            of_category == SelectSeq(user_expenses, Of)
        IN sum([i \in DOMAIN of_category |-> of_category[i].amount])]

\* percentage > bound, for a percentage << numerator, denominator >> with a
\* positive denominator.
over(percentage, bound) == percentage[1] > bound * percentage[2]

\* budget_planner, app.py 847-858: one row of budget_data.  The percentage is
\* the exact quotient << numerator, denominator >> of spent * 100 by budget: the
\* rounding of the division is left out.
budget_row(category, budget_amount, spent_amount) ==
    LET percentage == IF budget_amount > 0
                      THEN << spent_amount * 100, budget_amount >>
                      ELSE << 0, 1 >>
    IN [category |-> category, budget_amount |-> budget_amount,
        spent_amount |-> spent_amount,
        percentage |-> IF over(percentage, 100) THEN << 100, 1 >> ELSE percentage,
        status |-> IF over(percentage, 100) THEN "danger"
                   ELSE IF over(percentage, 70) THEN "warning" ELSE "success"]

\* budget_planner, app.py 845-858: budget_data, a row per default category.
budget_data(budget_amounts, user_expenses) ==
    LET spending == spending_by_category(user_expenses)
    IN [i \in DOMAIN default_expense_categories |->
           budget_row(default_expense_categories[i],
                      Get(budget_amounts, default_expense_categories[i], 0),
                      spending[default_expense_categories[i]])]

\* budget_planner, app.py 792-814 and 838-862: the entries of the missing
\* categories are added to the session and committed under the test of line 813;
\* GET renders the page, POST goes on to the update.
budget_planner(s, method, form) ==
    /\ req[s] = Idle
    /\ IF ~is_authenticated(s) THEN unauthorized(s, "budget_planner")
       ELSE LET user_budgets == filter_by_user(budgets, current_user(s))
                missing == missing_categories(user_budgets)
                added == NewBudgets(missing, Zero, current_user(s), NewId(budgets))
            IN /\ budgets' = IF ensure_commits(user_budgets) THEN budgets \cup added
                             ELSE budgets
               /\ IF method = "POST"
                  THEN /\ req' = [req EXCEPT ![s] =
                              [Idle EXCEPT !.op = "budget_planner", !.pc = "update",
                                           !.uid = current_user(s), !.form = form,
                                           !.pending = IF ensure_commits(user_budgets)
                                                       THEN << >> ELSE missing]]
                       /\ last' = Response("budget_planner", s, current_user(s), 0, 0, "",
                                           << >>)
                  ELSE /\ req' = req
                       /\ last' = Response("budget_planner", s, current_user(s), 0, 200, "",
                              budget_data(budget_dict(user_budgets),
                                  Rows(filter_by_user(expenses, current_user(s)))))
               /\ UNCHANGED << users, expenses, incomes, goals, investments, session >>

\* budget_planner, app.py 816-836: the queries flush the entries still pending in
\* the session, every default category gets the amount of the form, one commit.
budget_planner_update(s) ==
    /\ req[s].op = "budget_planner"
    /\ req[s].pc = "update"
    /\ LET flushed == budgets \cup
                        NewBudgets(req[s].pending, Zero, req[s].uid, NewId(budgets))
           items == [i \in DOMAIN default_expense_categories |->
                        << default_expense_categories[i],
                           FormAmount(Get(req[s].form, default_expense_categories[i], "0")) >>]
       IN budgets' = set_budgets(flushed, items, req[s].uid)
    /\ req' = [req EXCEPT ![s] = Idle]
    /\ last' = Response("budget_planner", s, req[s].uid, 0, 302, "budget_planner", << >>)
    /\ UNCHANGED << users, expenses, incomes, goals, investments, session >>

\* get_budget, app.py 864-875
get_budget(s) ==
    /\ req[s] = Idle
    /\ IF ~is_authenticated(s) THEN unauthorized(s, "get_budget")
       ELSE /\ last' = Response("get_budget", s, current_user(s), 0, 200, "",
                           << budget_dict(filter_by_user(budgets, current_user(s))) >>)
            /\ UNCHANGED << tables, session, req >>

\* The writes update_budget commits (887-896): a category whose row the query
\* found, as <<category, id>> in `found`, has the amount of that row set; a
\* category the query found no row of gets a new row.
RECURSIVE write_budgets(_, _, _, _)
write_budgets(rows, items, found, user_id) ==
    IF items = << >> THEN rows
    ELSE LET category == Head(items)[1]
             amount == Head(items)[2]
             id == Get(found, category, 0)
         IN write_budgets(
                IF category \in Keys(found)
                THEN {IF b.id = id THEN [b EXCEPT !.amount = amount] ELSE b : b \in rows}
                ELSE rows \cup {[id |-> NewId(rows), category |-> category,
                                 amount |-> amount, user_id |-> user_id]},
                Tail(items), found, user_id)

\* update_budget, app.py 877-886: the queries for the rows of the categories of
\* the body.  The table has no unique constraint and the handler takes no lock,
\* so requests of other sessions commit between these queries and the commit.
update_budget(s, data) ==
    /\ req[s] = Idle
    /\ IF ~is_authenticated(s) THEN unauthorized(s, "update_budget")
       ELSE LET found == {<< data[i][1],
                             first(filter_by_user(
                                 {b \in budgets : b.category = data[i][1]},
                                 current_user(s))).id >> :
                             i \in {j \in DOMAIN data :
                                       filter_by_user(
                                           {b \in budgets : b.category = data[j][1]},
                                           current_user(s)) # {}}}
            IN /\ req' = [req EXCEPT ![s] =
                       [Idle EXCEPT !.op = "update_budget", !.pc = "commit",
                                    !.uid = current_user(s), !.form = found,
                                    !.pending = data]]
               /\ last' = Response("update_budget", s, current_user(s), 0, 0, "", << >>)
               /\ UNCHANGED << tables, session >>

\* update_budget, app.py 887-899: the writes and the commit.
update_budget_commit(s) ==
    /\ req[s].op = "update_budget"
    /\ req[s].pc = "commit"
    /\ budgets' = write_budgets(budgets, req[s].pending, req[s].form, req[s].uid)
    /\ req' = [req EXCEPT ![s] = Idle]
    /\ last' = Response("update_budget", s, req[s].uid, 0, 200, "", << >>)
    /\ UNCHANGED << users, expenses, incomes, goals, investments, session >>

\* ------------------------------------------------------------ derived views
\* The grouping loop with the accumulation replaced by an assignment.
RECURSIVE group_by_overwrite(_)
group_by_overwrite(pairs) ==
    IF pairs = << >> THEN [k \in {} |-> 0]
    ELSE LET before == group_by_overwrite(SubSeq(pairs, 1, Len(pairs) - 1))
             key == pairs[Len(pairs)][1]
             value == pairs[Len(pairs)][2]
         IN [k \in DOMAIN before \cup {key} |-> IF k = key THEN value ELSE before[k]]

\* The grouping loops of get_financial_summary (916-938) and suggestions
\* (702-708) over <<key, value>> pairs: a key enters the dictionary at 0 when it
\* is first met, then the value is added.
RECURSIVE group_by(_)
group_by(pairs) ==
    IF pairs = << >> THEN [k \in {} |-> 0]
    ELSE LET before == group_by(SubSeq(pairs, 1, Len(pairs) - 1))
             key == pairs[Len(pairs)][1]
             value == pairs[Len(pairs)][2]
             entered == IF key \in DOMAIN before THEN before
                        ELSE [k \in DOMAIN before \cup {key} |->
                                 IF k = key THEN 0 ELSE before[k]]
         IN [entered EXCEPT ![key] = float_add(@, value)]

\* index, app.py 82-107
index(s) ==
    /\ req[s] = Idle
    /\ IF ~is_authenticated(s) THEN unauthorized(s, "index")
       ELSE LET user_expenses == Rows(filter_by_user(expenses, current_user(s)))
                user_incomes == Rows(filter_by_user(incomes, current_user(s)))
                total_expenses == sum([i \in DOMAIN user_expenses |-> user_expenses[i].amount])
                total_income == sum([i \in DOMAIN user_incomes |-> user_incomes[i].amount])
            IN /\ last' = Response("index", s, current_user(s), 0, 200, "",
                              << [total_expenses |-> total_expenses,
                                  total_income |-> total_income,
                                  net_worth |-> float_sub(total_income, total_expenses)] >>)
               /\ UNCHANGED << tables, session, req >>

\* get_financial_summary, app.py 901-948
get_financial_summary(s) ==
    /\ req[s] = Idle
    /\ IF ~is_authenticated(s) THEN unauthorized(s, "get_financial_summary")
       ELSE LET user_expenses == Rows(filter_by_user(expenses, current_user(s)))
                user_incomes == Rows(filter_by_user(incomes, current_user(s)))
                user_investments == Rows(filter_by_user(investments, current_user(s)))
                total_expenses == sum([i \in DOMAIN user_expenses |-> user_expenses[i].amount])
                total_income == sum([i \in DOMAIN user_incomes |-> user_incomes[i].amount])
                total_investments ==
                    sum([i \in DOMAIN user_investments |-> user_investments[i].current_value])
            IN /\ last' = Response("get_financial_summary", s, current_user(s), 0, 200, "",
                      << [total_expenses |-> total_expenses,
                          total_income |-> total_income,
                          total_investments |-> total_investments,
                          net_worth |-> float_add(float_sub(total_income, total_expenses),
                                                 total_investments),
                          expense_by_category |->
                              group_by([i \in DOMAIN user_expenses |->
                                  << user_expenses[i].category, user_expenses[i].amount >>]),
                          income_by_category |->
                              group_by([i \in DOMAIN user_incomes |->
                                  << user_incomes[i].category, user_incomes[i].amount >>]),
                          investments_by_type |->
                              group_by([i \in DOMAIN user_investments |->
                                  << user_investments[i].type,
                                     user_investments[i].current_value >>])] >>)
               /\ UNCHANGED << tables, session, req >>

\* suggestions, app.py 714-727: the income/expense ratio suggestion.  The tests
\* expense_ratio > 0.9 and expense_ratio < 0.5 are made on the exact quotient,
\* the rounding of the division left out.  A title is a tuple of its parts.
ratio_suggestions(total_expenses, total_income) ==
    IF total_income > 0
    THEN IF 10 * total_expenses > 9 * total_income
         THEN << [title |-> << "Reduce Expenses" >>, type |-> "warning"] >>
         ELSE IF 2 * total_expenses < total_income
         THEN << [title |-> << "Great Savings Rate" >>, type |-> "success"] >>
         ELSE << >>
    ELSE << >>

\* suggestions, app.py 730-744: the emergency fund and diversification ones.
investment_suggestions(user_investments) ==
    (IF user_investments = << >>
     THEN << [title |-> << "Start an Emergency Fund" >>, type |-> "info"] >>
     ELSE << >>)
    \o (IF /\ Cardinality({user_investments[i].type : i \in DOMAIN user_investments}) < 3
           /\ user_investments # << >>
        THEN << [title |-> << "Diversify Investments" >>, type |-> "info"] >>
        ELSE << >>)

\* max(expense_by_category.items(), key=lambda x: x[1]), app.py 748: the first
\* key, in the order the categories entered the dictionary, of the largest value.
highest_category(user_expenses, expense_by_category) ==
    LET seen(k) == CHOOSE i \in DOMAIN user_expenses :
                      /\ user_expenses[i].category = k
                      /\ \A j \in 1 .. i - 1 : user_expenses[j].category # k
        largest == {k \in DOMAIN expense_by_category :
                      \A k2 \in DOMAIN expense_by_category :
                         expense_by_category[k2] <= expense_by_category[k]}
    IN CHOOSE k \in largest : \A k2 \in largest : seen(k) <= seen(k2)

\* suggestions, app.py 758-768: a warning for each goal under a quarter of its
\* target (every goal whose target is not positive).
RECURSIVE goal_suggestions(_)
goal_suggestions(user_goals) ==
    IF user_goals = << >> THEN << >>
    ELSE LET goal == Head(user_goals)
         IN (IF goal.target_amount > 0 => 4 * goal.current_amount < goal.target_amount
             THEN << [title |-> << "Goal:", goal.name >>, type |-> "warning"] >>
             ELSE << >>)
            \o goal_suggestions(Tail(user_goals))

\* suggestions, app.py 771-788: the default suggestions.
default_suggestions ==
    << [title |-> << "Track Your Expenses" >>, type |-> "info"],
       [title |-> << "Set Financial Goals" >>, type |-> "info"],
       [title |-> << "Create a Budget" >>, type |-> "info"] >>

\* suggestions, app.py 687-790.  The descriptions, which format the ratios,
\* are left out but for the division of line 753, which raises
\* ZeroDivisionError (the 500 response) when total_expenses is 0.
suggestions(s) ==
    /\ req[s] = Idle
    /\ IF ~is_authenticated(s) THEN unauthorized(s, "suggestions")
       ELSE LET user_expenses == Rows(filter_by_user(expenses, current_user(s)))
                user_incomes == Rows(filter_by_user(incomes, current_user(s)))
                user_goals == Rows(filter_by_user(goals, current_user(s)))
                user_investments == Rows(filter_by_user(investments, current_user(s)))
                total_expenses == sum([i \in DOMAIN user_expenses |-> user_expenses[i].amount])
                total_income == sum([i \in DOMAIN user_incomes |-> user_incomes[i].amount])
                expense_by_category ==
                    group_by([i \in DOMAIN user_expenses |->
                                << user_expenses[i].category, user_expenses[i].amount >>])
                highest == highest_category(user_expenses, expense_by_category)
                high == /\ DOMAIN expense_by_category # {}
                        /\ 10 * expense_by_category[highest] > 4 * total_expenses
                found == ratio_suggestions(total_expenses, total_income)
                            \o investment_suggestions(user_investments)
                            \o (IF high
                                THEN << [title |-> << "High", highest, "Expenses" >>,
                                         type |-> "warning"] >>
                                ELSE << >>)
                            \o goal_suggestions(user_goals)
            IN /\ last' = IF high /\ total_expenses = 0
                          THEN Response("suggestions", s, current_user(s), 0, 500, "", << >>)
                          ELSE Response("suggestions", s, current_user(s), 0, 200, "",
                                        IF found = << >> THEN default_suggestions
                                        ELSE found)
               /\ UNCHANGED << tables, session, req >>

\* ------------------------------------------------------------ request bodies
\* Every body carries the fields its handler converts without a default
\* (float(...), strptime(...)), so the defaults the row constructors give Get for
\* those fields are never used; a request without them raises before any write.
ExpenseBodies ==
    {{<< "description", "lunch" >>, << "amount", 2 >>, << "category", c >>,
      << "date", "2024-01-15" >>} : c \in ExpenseCategoryInputs}
IncomeBodies ==
    {{<< "description", "pay" >>, << "amount", 2 >>, << "category", c >>}
        : c \in IncomeCategoryInputs}
GoalBodies ==
    {{<< "name", n >>, << "target_amount", 2 >>} : n \in GoalNames}
GoalUpdates ==
    {{}, {<< "current_amount", 1 >>, << "target_date", "2024-01-15" >>}}
InvestmentBodies ==
    {{<< "name", "fund" >>, << "type", ty >>, << "amount", 2 >>,
      << "purchase_date", "2024-01-15" >>} : ty \in InvestmentTypeInputs}
InvestmentUpdates ==
    {{}, {<< "current_value", -1 >>}}
BudgetForms ==
    {{}} \cup {{<< c, a >>} : c \in BudgetFormCategories, a \in BudgetAmountStrs}
BudgetData ==
    {<< << c, a >> >> : c \in BudgetJsonCategories, a \in BudgetJsonAmounts}
\* The ids a request may name: those in use and one that names no row.
Ids == 1 .. MaxRecords + 1

\* ------------------------------------------------------------ the requests
\* The requests of the sessions S.  A request that adds a row is made while
\* fewer than `max` rows are in the four tracker tables.
Auth(S) ==
    \/ \E s \in S, m \in Methods, u \in Usernames, p \in Passwords :
          login(s, m, u, p)
    \/ \E s \in S : logout(s)

Registration(S) ==
    \/ \E s \in S, m \in Methods, f \in RegistrationForms :
          register(s, m, f[1], f[2], f[3])
    \/ \E s \in S : register_commit_user(s)
    \/ \E s \in S : register_commit_budgets(s)

Budgets(S, forms, bodies) ==
    \/ \E s \in S, m \in Methods, f \in forms : budget_planner(s, m, f)
    \/ \E s \in S : budget_planner_update(s)
    \/ \E s \in S : get_budget(s)
    \/ \E s \in S, d \in bodies : update_budget(s, d)
    \/ \E s \in S : update_budget_commit(s)

TrackerPages(S, max) ==
    \/ \E s \in S, m \in Methods, b \in ExpenseBodies :
          ((m = "POST" /\ is_authenticated(s)) => TotalRecords < max) /\ expense_tracker(s, m, b)
    \/ \E s \in S, m \in Methods, b \in IncomeBodies :
          ((m = "POST" /\ is_authenticated(s)) => TotalRecords < max) /\ income_tracker(s, m, b)
    \/ \E s \in S, m \in Methods, b \in GoalBodies :
          ((m = "POST" /\ is_authenticated(s)) => TotalRecords < max) /\ goal_tracker(s, m, b)
    \/ \E s \in S, m \in Methods, b \in InvestmentBodies :
          ((m = "POST" /\ is_authenticated(s)) => TotalRecords < max) /\ investment_tracker(s, m, b)

TrackerReads(S) ==
    \/ \E s \in S : get_expenses(s)
    \/ \E s \in S : get_incomes(s)
    \/ \E s \in S : get_goals(s)
    \/ \E s \in S : get_investments(s)

TrackerWrites(S, max) ==
    \/ \E s \in S, b \in ExpenseBodies : (is_authenticated(s) => TotalRecords < max) /\ add_expense(s, b)
    \/ \E s \in S, id \in Ids : delete_expense(s, id)
    \/ \E s \in S, b \in IncomeBodies : (is_authenticated(s) => TotalRecords < max) /\ add_income(s, b)
    \/ \E s \in S, id \in Ids : delete_income(s, id)
    \/ \E s \in S, b \in GoalBodies : (is_authenticated(s) => TotalRecords < max) /\ add_goal(s, b)
    \/ \E s \in S, id \in Ids, d \in GoalUpdates : update_goal(s, id, d)
    \/ \E s \in S, id \in Ids : delete_goal(s, id)
    \/ \E s \in S, b \in InvestmentBodies : (is_authenticated(s) => TotalRecords < max) /\ add_investment(s, b)
    \/ \E s \in S, id \in Ids, d \in InvestmentUpdates : update_investment(s, id, d)
    \/ \E s \in S, id \in Ids : delete_investment(s, id)

Views(S) ==
    \/ \E s \in S : index(s)
    \/ \E s \in S : get_financial_summary(s)

Advice(S) == \E s \in S : suggestions(s)

\* Two registered users with their default budgets, each logged in in a session
\* of their own: the state after two registrations and two logins.
Registered ==
    /\ users = {[id |-> 1, username |-> "alice", email |-> "a@x.org",
                 password_hash |-> generate_password_hash("pw1")],
                [id |-> 2, username |-> "bob", email |-> "b@x.org",
                 password_hash |-> generate_password_hash("pw2")]}
    /\ budgets = NewBudgets(default_expense_categories, Zero, 1, 1)
                    \cup NewBudgets(default_expense_categories, Zero, 2,
                                    Len(default_expense_categories) + 1)
    /\ req = [s \in Sessions |-> Idle]
    /\ last = Response("start", "s1", Anonymous, 0, 0, "", << >>)

TwoUsers ==
    /\ Registered
    /\ session = [s \in Sessions |->
                    IF s = "s1" THEN [_user_id |-> 1, username |-> Some("alice")]
                    ELSE [_user_id |-> 2, username |-> Some("bob")]]

\* The two users, alice logged in in both sessions (two browsers of one user),
\* and no tracker rows.
InitSameUser ==
    /\ Registered
    /\ session = [s \in Sessions |-> [_user_id |-> 1, username |-> Some("alice")]]
    /\ expenses = {}
    /\ incomes = {}
    /\ goals = {}
    /\ investments = {}

InitData ==
    /\ TwoUsers
    /\ expenses = {}
    /\ incomes = {}
    /\ goals = {}
    /\ investments = {}

\* The two users with up to MaxSummaryRows expenses, incomes and investments
\* between them: every split of the rows over the tables, the owners, the
\* categories and the amounts.
InitSummary ==
    /\ TwoUsers
    /\ goals = {}
    /\ \E n1 \in 0 .. MaxSummaryRows :
         \E n2 \in 0 .. MaxSummaryRows - n1 :
            \E n3 \in 0 .. MaxSummaryRows - n1 - n2 :
               /\ \E e \in [1 .. n1 -> {1, 2} \X SummaryExpenseCategories \X SummaryAmounts] :
                     expenses = {[id |-> i, description |-> "", amount |-> e[i][3],
                                  category |-> e[i][2], date |-> strptime("2024-01-15"),
                                  user_id |-> e[i][1]] : i \in 1 .. n1}
               /\ \E e \in [1 .. n2 -> {1, 2} \X SummaryIncomeCategories \X SummaryAmounts] :
                     incomes = {[id |-> i, description |-> "", amount |-> e[i][3],
                                 category |-> e[i][2], date |-> strptime("2024-01-15"),
                                 user_id |-> e[i][1]] : i \in 1 .. n2}
               /\ \E e \in [1 .. n3 -> {1, 2} \X SummaryInvestmentTypes \X SummaryAmounts] :
                     investments = {[id |-> i, name |-> "", type |-> e[i][2],
                                     amount |-> e[i][3],
                                     purchase_date |-> strptime("2024-01-15"),
                                     current_value |-> e[i][3], notes |-> "",
                                     user_id |-> e[i][1]] : i \in 1 .. n3}

\* The two users, alice with a Food budget set through POST /api/budget, and up
\* to MaxBudgetPageRows expenses between them: every owner, category and amount.
InitBudgetPage ==
    /\ users = {[id |-> 1, username |-> "alice", email |-> "a@x.org",
                 password_hash |-> generate_password_hash("pw1")],
                [id |-> 2, username |-> "bob", email |-> "b@x.org",
                 password_hash |-> generate_password_hash("pw2")]}
    /\ session = [s \in Sessions |->
                    IF s = "s1" THEN [_user_id |-> 1, username |-> Some("alice")]
                    ELSE [_user_id |-> 2, username |-> Some("bob")]]
    /\ req = [s \in Sessions |-> Idle]
    /\ last = Response("start", "s1", Anonymous, 0, 0, "", << >>)
    /\ \E a \in BudgetPageBudgets :
          budgets = NewBudgets(default_expense_categories,
                               [Zero EXCEPT !["Food"] = a], 1, 1)
                       \cup NewBudgets(default_expense_categories,
                                       [Zero EXCEPT !["Food"] = 4], 2,
                                       Len(default_expense_categories) + 1)
    /\ \E n \in 0 .. MaxBudgetPageRows :
          \E e \in [1 .. n -> {1, 2} \X BudgetPageCategories \X BudgetPageExpenseAmounts] :
             expenses = {[id |-> i, description |-> "", amount |-> e[i][3],
                          category |-> e[i][2], date |-> strptime("2024-01-15"),
                          user_id |-> e[i][1]] : i \in 1 .. n}
    /\ incomes = {}
    /\ goals = {}
    /\ investments = {}

\* The two users with up to MaxSuggestionRows expenses and at most one income,
\* one investment and one goal between them.
InitSuggestions ==
    /\ TwoUsers
    /\ \E n \in 0 .. MaxSuggestionRows :
          \E e \in [1 .. n -> {1, 2} \X SuggestionExpenseCategories
                                     \X SuggestionExpenseAmounts] :
             expenses = {[id |-> i, description |-> "", amount |-> e[i][3],
                          category |-> e[i][2], date |-> strptime("2024-01-15"),
                          user_id |-> e[i][1]] : i \in 1 .. n}
    /\ \E n \in 0 .. 1 :
          \E e \in [1 .. n -> {1, 2} \X SuggestionIncomeAmounts] :
             incomes = {[id |-> i, description |-> "", amount |-> e[i][2],
                         category |-> "Salary", date |-> strptime("2024-01-15"),
                         user_id |-> e[i][1]] : i \in 1 .. n}
    /\ \E n \in 0 .. 1 :
          \E e \in [1 .. n -> {1, 2}] :
             investments = {[id |-> i, name |-> "", type |-> "Stocks", amount |-> 2,
                             purchase_date |-> strptime("2024-01-15"),
                             current_value |-> 2, notes |-> "",
                             user_id |-> e[i]] : i \in 1 .. n}
    /\ \E n \in 0 .. 1 :
          \E e \in [1 .. n -> {1, 2}] :
             goals = {[id |-> i, name |-> "car", target_amount |-> 2,
                       current_amount |-> 0, target_date |-> NoneVal,
                       description |-> "", user_id |-> e[i]] : i \in 1 .. n}

\* ---------------------------------------------------------- specifications
\* The whole application, every session.
Next ==
    \/ Auth(Sessions)
    \/ Registration(Sessions)
    \/ Budgets(Sessions, BudgetForms, BudgetData)
    \/ TrackerPages(Sessions, MaxRecords)
    \/ TrackerReads(Sessions)
    \/ TrackerWrites(Sessions, MaxRecords)
    \/ Views(Sessions)
    \/ Advice(Sessions)

Spec == Init /\ [][Next]_vars

\* The login gate: one browser session against every route.
NextGate ==
    \/ Auth({"s1"})
    \/ Registration({"s1"})
    \/ Budgets({"s1"}, {{}}, BudgetData)
    \/ TrackerPages({"s1"}, MaxGateRecords)
    \/ TrackerReads({"s1"})
    \/ TrackerWrites({"s1"}, MaxGateRecords)
    \/ Views({"s1"})

SpecGate == Init /\ [][NextGate]_vars

\* Registration and login of two sessions, interleaved.
NextRegister ==
    \/ Auth(Sessions)
    \/ Registration(Sessions)
    \/ Budgets(Sessions, {{}}, BudgetData)

SpecRegister == Init /\ [][NextRegister]_vars

\* The trackers of two logged-in users.
NextData ==
    \/ TrackerReads(Sessions)
    \/ TrackerWrites(Sessions, MaxRecords)

SpecData == InitData /\ [][NextData]_vars

\* Every write of two logged-in users.
NextWrites ==
    \/ TrackerPages(Sessions, MaxGateRecords)
    \/ TrackerWrites(Sessions, MaxGateRecords)
    \/ Budgets(Sessions, BudgetForms, BudgetData)

SpecWrites == InitData /\ [][NextWrites]_vars

\* The budget routes of one user in two sessions, interleaved.
NextBudgets == Budgets(Sessions, BudgetForms, BudgetData)

SpecBudgets == InitSameUser /\ [][NextBudgets]_vars

\* The budget page over every small set of expenses and Food budgets.
NextBudgetPage == \E s \in Sessions : budget_planner(s, "GET", {})

SpecBudgetPage == InitBudgetPage /\ [][NextBudgetPage]_vars

\* The suggestions over every small set of rows.
NextSuggestions == Advice(Sessions)

SpecSuggestions == InitSuggestions /\ [][NextSuggestions]_vars

\* The derived views over every small set of rows.
NextSummary == Views(Sessions)

SpecSummary == InitSummary /\ [][NextSummary]_vars

\* ------------------------------------------------------------------ claims
UserIds == {u.id : u \in users}

\* A step of a request of user `uid` on one record table, `before` to `after`:
\* the rows of other owners stay as they are, every row that is new or changed
\* is owned by uid, and no row changes its owner.
OwnRowsOnly(before, after, uid) ==
    /\ \A r \in before : r.user_id # uid => r \in after
    /\ \A r \in after : r \notin before => r.user_id = uid
    /\ \A r2 \in after \ before :
          \A r \in before : r.id = r2.id => r.user_id = r2.user_id

\* C1: a request of user U creates, modifies and deletes only Expense, Income,
\* Goal, Investment and Budget rows whose user_id is U; every row of another
\* user is unchanged by it, and no row's user_id ever changes.
C1_WriteIsolation ==
    [][ /\ OwnRowsOnly(expenses, expenses', last'.uid)
        /\ OwnRowsOnly(incomes, incomes', last'.uid)
        /\ OwnRowsOnly(goals, goals', last'.uid)
        /\ OwnRowsOnly(investments, investments', last'.uid)
        /\ OwnRowsOnly(budgets, budgets', last'.uid) ]_vars

\* A user who has set a budget of their own has just been told that the goal
\* named by a PUT is not found, the only goal being another user's, who also
\* owns a budget of a category that is no default.
C1_Witness ==
    /\ last.op = "update_goal"
    /\ last.status = 404
    /\ \E g \in goals : g.user_id # last.uid
    /\ \E b \in budgets : b.user_id = last.uid /\ b.amount # 0
    /\ \E b \in budgets : b.user_id # last.uid /\ b.category = "Pets"

\* Whether session s holds the id of a user, read off the state.
LoggedIn(s) == session[s]._user_id \in UserIds

\* The routes behind @login_required.
ProtectedOps ==
    {"index", "logout", "expense_tracker", "get_expenses", "add_expense",
     "delete_expense", "income_tracker", "get_incomes", "add_income",
     "delete_income", "goal_tracker", "get_goals", "add_goal", "update_goal",
     "delete_goal", "investment_tracker", "get_investments", "add_investment",
     "update_investment", "delete_investment", "budget_planner", "get_budget",
     "update_budget", "get_financial_summary"}

\* C2, as stated: no step creates, modifies or deletes an Expense, Income, Goal,
\* Investment or Budget row while the session of the request holds no
\* authenticated user.
C2_NoWriteWithoutUser ==
    [][ records' # records => LoggedIn(last'.sid) ]_vars

\* C2, amended: a row is created, modified or deleted only by a request whose
\* session holds an authenticated user, resolved before the row is touched,
\* except that register, which runs without one, adds the default Budget rows
\* of the user it has just created and touches no other row.
C2_WriteNeedsUserOrRegisters ==
    [][ records' # records =>
          \/ /\ LoggedIn(last'.sid)
             /\ last'.uid = session[last'.sid]._user_id
             /\ last'.op \in ProtectedOps
          \/ /\ ~LoggedIn(last'.sid)
             /\ last'.op = "register"
             /\ last'.arg = req[last'.sid].uid
             /\ last'.arg \in UserIds
             /\ << expenses, incomes, goals, investments >>'
                   = << expenses, incomes, goals, investments >>
             /\ budgets \subseteq budgets'
             /\ \A b \in budgets' \ budgets :
                   /\ b.user_id = last'.arg
                   /\ b.amount = 0
                   /\ b.category \in Range(default_expense_categories) ]_vars

\* A logged-out session has just asked to add an expense and was sent to the
\* login page, while an expense added earlier is still in the table.
C2_Witness ==
    /\ last.op = "add_expense"
    /\ last.status = 302
    /\ last.to = "login"
    /\ ~LoggedIn(last.sid)
    /\ expenses # {}
    /\ budgets # {}

\* C5: a login POST authenticates the session as user X only if X is the user
\* of the submitted username and the submitted password matches X's stored
\* hash; with an unknown username or a wrong password the session stays
\* unauthenticated; no login changes stored data or another session.
C5_LoginChecksCredentials ==
    [][ \A s \in Sessions, m \in Methods, un \in Usernames, pw \in Passwords :
          login(s, m, un, pw) =>
            LET valid == {u \in users : /\ u.username = un
                                        /\ u.password_hash = generate_password_hash(pw)}
            IN /\ tables' = tables
               /\ \A x \in Sessions \ {s} : session'[x] = session[x]
               /\ session'[s] # session[s] =>
                     /\ m = "POST"
                     /\ \E u \in valid :
                           session'[s] = [_user_id |-> u.id, username |-> Some(u.username)]
               /\ (m = "POST" /\ valid = {} /\ ~LoggedIn(s)) =>
                     /\ session'[s] = session[s]
                     /\ ~LoggedIn(s)' ]_vars

\* The second of two users has just logged in.
C5_Witness ==
    /\ last.op = "login"
    /\ last.status = 302
    /\ last.arg = 2
    /\ Cardinality(users) = 2
    /\ session[last.sid] = [_user_id |-> 2, username |-> Some("bob")]

\* C6: a completed logout leaves the session unauthenticated and without a
\* 'username' entry; a session without an authenticated user is refused on every
\* login-protected route, no row read or written, and becomes authenticated only
\* by a login that succeeds; login and register of an authenticated session
\* redirect to the dashboard, keep the session as it is and create no user.
C6_SessionOrdering ==
    [][ /\ (last'.op = "logout" /\ LoggedIn(last'.sid)) =>
              session'[last'.sid] = [_user_id |-> Anonymous, username |-> NoneVal]
        /\ (last'.op \in ProtectedOps /\ ~LoggedIn(last'.sid)
              /\ req[last'.sid] = Idle) =>
              /\ last'.status = 302
              /\ last'.to = "login"
              /\ last'.body = << >>
              /\ tables' = tables
              /\ session' = session
        /\ \A s \in Sessions :
              (~LoggedIn(s) /\ LoggedIn(s)') =>
                  /\ last'.op = "login"
                  /\ last'.sid = s
                  /\ last'.arg = session'[s]._user_id
        /\ (last'.op \in {"login", "register"} /\ LoggedIn(last'.sid)) =>
              /\ last'.status = 302
              /\ last'.to = "index"
              /\ session' = session
              /\ users' = users
              /\ req' = req ]_vars

\* A session that is logged out again has just been refused its expense list,
\* of which there is one row.
C6_Witness ==
    /\ last.op = "get_expenses"
    /\ last.status = 302
    /\ last.to = "login"
    /\ session[last.sid] = [_user_id |-> Anonymous, username |-> NoneVal]
    /\ expenses # {}

\* A list response of exactly the dictionaries `dicts`, each once.
ExactList(body, dicts) ==
    /\ Range(body) = dicts
    /\ Len(body) = Cardinality(dicts)

\* The four list endpoints answer with the rows of the caller and no others.
ListsExact ==
    /\ last.op \in {"get_expenses", "get_incomes", "get_goals", "get_investments"}
          => last.uid = session[last.sid]._user_id
    /\ (last.op = "get_expenses" /\ last.status = 200) =>
          ExactList(last.body,
                    {expense_dict(r) : r \in {x \in expenses : x.user_id = last.uid}})
    /\ (last.op = "get_incomes" /\ last.status = 200) =>
          ExactList(last.body,
                    {income_dict(r) : r \in {x \in incomes : x.user_id = last.uid}})
    /\ (last.op = "get_goals" /\ last.status = 200) =>
          ExactList(last.body,
                    {goal_dict(r) : r \in {x \in goals : x.user_id = last.uid}})
    /\ (last.op = "get_investments" /\ last.status = 200) =>
          ExactList(last.body,
                    {investment_dict(r) : r \in {x \in investments : x.user_id = last.uid}})

\* A step on one tracker table: a row stays, with its id and owner, unless this
\* step is its owner's delete of it; the row an add returns is new, owned by the
\* caller and in the table; the row a delete names is gone.
RowsLast(before, after, add_ops, delete_op, resp) ==
    /\ \A r \in before :
          \/ \E r2 \in after : r2.id = r.id /\ r2.user_id = r.user_id
          \/ /\ resp.op = delete_op
             /\ resp.status = 200
             /\ resp.uid = r.user_id
             /\ resp.arg = r.id
    /\ (resp.op \in add_ops /\ resp.status \in {200, 302} /\ resp.arg # 0) =>
          /\ \A r \in before : r.id # resp.arg
          /\ \E r \in after : r.id = resp.arg /\ r.user_id = resp.uid
    /\ (resp.op = delete_op /\ resp.status = 200) =>
          \A r \in after : r.id # resp.arg

\* C3: each list endpoint called by user U returns exactly the rows of its
\* table whose user_id is U, each once and none of another user; a row that an
\* add returned stays in its owner's table, hence list, until the owner deletes
\* it, and is in no table, hence no list, once deleted.
C3_ReadExactness ==
    [][ /\ ListsExact'
        /\ RowsLast(expenses, expenses', {"add_expense", "expense_tracker"},
                    "delete_expense", last')
        /\ RowsLast(incomes, incomes', {"add_income", "income_tracker"},
                    "delete_income", last')
        /\ RowsLast(goals, goals', {"add_goal", "goal_tracker"}, "delete_goal", last')
        /\ RowsLast(investments, investments',
                    {"add_investment", "investment_tracker"}, "delete_investment",
                    last')
        /\ (last'.op = "add_expense" /\ last'.status = 200) =>
              \E r \in expenses' : r.id = last'.arg /\ last'.body = << expense_dict(r) >>
        /\ (last'.op = "add_income" /\ last'.status = 200) =>
              \E r \in incomes' : r.id = last'.arg /\ last'.body = << income_dict(r) >>
        /\ (last'.op = "add_goal" /\ last'.status = 200) =>
              \E r \in goals' : r.id = last'.arg /\ last'.body = << goal_dict(r) >>
        /\ (last'.op = "add_investment" /\ last'.status = 200) =>
              \E r \in investments' :
                  r.id = last'.arg /\ last'.body = << investment_dict(r) >> ]_vars

\* A user has just listed their goals and got the one goal of theirs, the table
\* holding a goal of another user too.
C3_Witness ==
    /\ last.op = "get_goals"
    /\ last.status = 200
    /\ Len(last.body) = 1
    /\ Cardinality(goals) = 2
    /\ \E g \in goals : g.user_id # last.uid

\* C4: a PUT of a goal or investment, or a DELETE of an expense, income, goal or
\* investment, whose id names no row or a row of another user answers 404 and
\* leaves every row as it is; a DELETE whose id names a row of the caller
\* removes that one row and answers success.
C4_NotFoundOrDeleted ==
    [][ /\ last'.status = 404 => tables' = tables
        /\ \A s \in Sessions, id \in Ids :
              /\ (delete_expense(s, id) /\ LoggedIn(s)) =>
                    LET own == {r \in expenses : r.id = id /\ r.user_id = session[s]._user_id}
                    IN IF own = {} THEN last'.status = 404
                       ELSE /\ last'.status = 200
                            /\ Cardinality(own) = 1
                            /\ expenses' = expenses \ own
                            /\ UNCHANGED << users, incomes, goals, investments, budgets >>
              /\ (delete_income(s, id) /\ LoggedIn(s)) =>
                    LET own == {r \in incomes : r.id = id /\ r.user_id = session[s]._user_id}
                    IN IF own = {} THEN last'.status = 404
                       ELSE /\ last'.status = 200
                            /\ Cardinality(own) = 1
                            /\ incomes' = incomes \ own
                            /\ UNCHANGED << users, expenses, goals, investments, budgets >>
              /\ (delete_goal(s, id) /\ LoggedIn(s)) =>
                    LET own == {r \in goals : r.id = id /\ r.user_id = session[s]._user_id}
                    IN IF own = {} THEN last'.status = 404
                       ELSE /\ last'.status = 200
                            /\ Cardinality(own) = 1
                            /\ goals' = goals \ own
                            /\ UNCHANGED << users, expenses, incomes, investments, budgets >>
              /\ (delete_investment(s, id) /\ LoggedIn(s)) =>
                    LET own == {r \in investments :
                                   r.id = id /\ r.user_id = session[s]._user_id}
                    IN IF own = {} THEN last'.status = 404
                       ELSE /\ last'.status = 200
                            /\ Cardinality(own) = 1
                            /\ investments' = investments \ own
                            /\ UNCHANGED << users, expenses, incomes, goals, budgets >>
              /\ \A d \in GoalUpdates :
                    (update_goal(s, id, d) /\ LoggedIn(s)) =>
                       (last'.status = 404 <=>
                          {r \in goals : r.id = id /\ r.user_id = session[s]._user_id} = {})
              /\ \A d \in InvestmentUpdates :
                    (update_investment(s, id, d) /\ LoggedIn(s)) =>
                       (last'.status = 404 <=>
                          {r \in investments :
                              r.id = id /\ r.user_id = session[s]._user_id} = {}) ]_vars

\* A user has just been told that the investment a DELETE named is not found,
\* every investment in the table being another user's.
C4_Witness ==
    /\ last.op = "delete_investment"
    /\ last.status = 404
    /\ investments # {}
    /\ \A r \in investments : r.user_id # last.uid

\* No two User rows share a username, and no two share an email.
UsersUnique ==
    \A u1, u2 \in users :
        (u1.username = u2.username \/ u1.email = u2.email) => u1 = u2

\* C7: in every reachable state, requests of the sessions interleaved between
\* register's checks and its commits included, no two User rows share a username
\* and no two share an email; a register POST whose username or email belongs to
\* a user, at its checks or by the time of its commit, creates no User row and no
\* Budget row, and its request ends there.
C7_UserUniqueness ==
    /\ []UsersUnique
    /\ [][ \A s \in Sessions :
             /\ \A f \in RegistrationForms :
                   ( /\ register(s, "POST", f[1], f[2], f[3])
                     /\ ~LoggedIn(s)
                     /\ \E u \in users : u.username = f[1] \/ u.email = f[2] )
                   => /\ users' = users
                      /\ budgets' = budgets
                      /\ req'[s] = Idle
                      /\ last'.status = 200
             /\ ( /\ register_commit_user(s)
                  /\ \E u \in users :
                        u.username = req[s].username \/ u.email = req[s].email )
                => /\ users' = users
                   /\ budgets' = budgets
                   /\ req'[s] = Idle
                   /\ last'.status = 500 ]_vars

\* A registration that passed its checks has just been refused at its commit:
\* another session registered the same email in between.
C7_Witness ==
    /\ last.op = "register"
    /\ last.status = 500
    /\ Cardinality(users) = 1
    /\ budgets = {}

\* The <<id, key, value>> entries of the rows of user uid in the three tables
\* of the summary.
ExpenseEntries(uid) ==
    {<< r.id, r.category, r.amount >> : r \in {x \in expenses : x.user_id = uid}}
IncomeEntries(uid) ==
    {<< r.id, r.category, r.amount >> : r \in {x \in incomes : x.user_id = uid}}
InvestmentEntries(uid) ==
    {<< r.id, r.type, r.current_value >> : r \in {x \in investments : x.user_id = uid}}

\* The exact sum of the values of a set of entries.
RECURSIVE Total(_)
Total(entries) ==
    IF entries = {} THEN 0
    ELSE LET e == CHOOSE x \in entries : TRUE
         IN e[3] + Total(entries \ {e})

\* The exact sum of the magnitudes of the values.
Magnitude(entries) ==
    Total({<< e[1], e[2], IF e[3] < 0 THEN 0 - e[3] ELSE e[3] >> : e \in entries})

\* The exact sum of the values of a grouping.
GroupingTotal(grouping) ==
    Total({<< k, k, grouping[k] >> : k \in DOMAIN grouping})

KeysExact(grouping, entries) == DOMAIN grouping = {e[2] : e \in entries}

SumsExact(total, grouping, entries) ==
    /\ total = Total(entries)
    /\ GroupingTotal(grouping) = total

\* C8 as stated: the totals of GET /api/summary are the sums of the amounts of
\* the caller's expenses and incomes and of the current values of the caller's
\* investments, the values of each grouping sum to its total, and the keys of a
\* grouping are the categories the caller has a record of.
C8_SummaryExact ==
    (last.op = "get_financial_summary" /\ last.status = 200) =>
        LET b == last.body[1]
        IN /\ KeysExact(b.expense_by_category, ExpenseEntries(last.uid))
           /\ KeysExact(b.income_by_category, IncomeEntries(last.uid))
           /\ KeysExact(b.investments_by_type, InvestmentEntries(last.uid))
           /\ SumsExact(b.total_expenses, b.expense_by_category, ExpenseEntries(last.uid))
           /\ SumsExact(b.total_income, b.income_by_category, IncomeEntries(last.uid))
           /\ SumsExact(b.total_investments, b.investments_by_type,
                        InvestmentEntries(last.uid))

\* C8, amended: the keys of each grouping are the categories the caller has a
\* record of; where the magnitudes of the caller's amounts sum to less than
\* 2^Precision, so that no float addition rounds, each total is the sum of the
\* caller's amounts and the values of its grouping sum to it.
C8_SummaryExactUnlessRounded ==
    (last.op = "get_financial_summary" /\ last.status = 200) =>
        LET b == last.body[1]
        IN /\ KeysExact(b.expense_by_category, ExpenseEntries(last.uid))
           /\ KeysExact(b.income_by_category, IncomeEntries(last.uid))
           /\ KeysExact(b.investments_by_type, InvestmentEntries(last.uid))
           /\ Magnitude(ExpenseEntries(last.uid)) < 2 ^ Precision =>
                 SumsExact(b.total_expenses, b.expense_by_category,
                           ExpenseEntries(last.uid))
           /\ Magnitude(IncomeEntries(last.uid)) < 2 ^ Precision =>
                 SumsExact(b.total_income, b.income_by_category, IncomeEntries(last.uid))
           /\ Magnitude(InvestmentEntries(last.uid)) < 2 ^ Precision =>
                 SumsExact(b.total_investments, b.investments_by_type,
                           InvestmentEntries(last.uid))

\* A summary has just been returned to a user with two expenses of one category
\* whose sum does not round, the table holding an expense of another user too.
C8_Witness ==
    /\ last.op = "get_financial_summary"
    /\ last.status = 200
    /\ Magnitude(ExpenseEntries(last.uid)) < 2 ^ Precision
    /\ \E r1, r2 \in expenses :
          /\ r1 # r2
          /\ r1.user_id = last.uid
          /\ r2.user_id = last.uid
          /\ r1.category = r2.category
    /\ \E r \in expenses : r.user_id # last.uid

\* The rows of a table that belong to uid.
OwnedBy(table, uid) == {r \in table : r.user_id = uid}

\* C9 as stated: when a register POST ends with the redirect to login, the new
\* user owns exactly one Budget row for each default expense category, each of
\* amount 0, and no other row; no row of another user has changed.
C9_RegisterInitialisesBudgets ==
    [][ (last'.op = "register" /\ last'.status = 302 /\ last'.to = "login") =>
          LET uid == last'.arg
          IN /\ \A c \in Range(default_expense_categories) :
                   Cardinality({b \in OwnedBy(budgets', uid) : b.category = c}) = 1
             /\ \A b \in OwnedBy(budgets', uid) :
                   b.amount = 0 /\ b.category \in Range(default_expense_categories)
             /\ OwnedBy(expenses', uid) = {}
             /\ OwnedBy(incomes', uid) = {}
             /\ OwnedBy(goals', uid) = {}
             /\ OwnedBy(investments', uid) = {}
             /\ \A u \in UserIds \ {uid} :
                   /\ OwnedBy(budgets', u) = OwnedBy(budgets, u)
                   /\ OwnedBy(expenses', u) = OwnedBy(expenses, u)
                   /\ OwnedBy(incomes', u) = OwnedBy(incomes, u)
                   /\ OwnedBy(goals', u) = OwnedBy(goals, u)
                   /\ OwnedBy(investments', u) = OwnedBy(investments, u) ]_vars

\* C10 as stated: after a GET /budget request of a user completes, the database
\* holds a Budget row of that user for every default expense category.
C10_BudgetPageEnsuresEntries ==
    [][ (last'.op = "budget_planner" /\ last'.status = 200) =>
          \A c \in Range(default_expense_categories) :
              \E b \in budgets' : b.user_id = last'.uid /\ b.category = c ]_vars

\* No user has two Budget rows of one category.
BudgetsUnique ==
    \A b1, b2 \in budgets :
        (b1.user_id = b2.user_id /\ b1.category = b2.category) => b1 = b2

\* C11 as stated: in every reachable state a user has at most one Budget row per
\* category, and a step of POST /api/budget or POST /budget adds no row of a
\* category the user already has a row of.
C11_BudgetUniqueness ==
    [][ /\ BudgetsUnique'
        /\ last'.op \in {"update_budget", "budget_planner"} =>
              \A b2 \in budgets' \ budgets :
                 (\A b \in budgets : b.id # b2.id) =>
                    \A b \in budgets :
                       ~(b.user_id = b2.user_id /\ b.category = b2.category) ]_vars

\* The value a field of a row has after a PUT with body `data`: the submitted
\* one when the key is present, the one it had when the key is absent.
Submitted(data, key, old) ==
    IF key \in Keys(data) THEN (CHOOSE kv \in data : kv[1] = key)[2] ELSE old

\* C12: a successful PUT on a goal (an investment) of the caller sets the fields
\* whose keys are in the body to the submitted values (dates parsed) and leaves
\* the fields whose keys are absent, the id, the user_id and every other row as
\* they were; a PUT with an empty body changes no row.
C12_PartialUpdateFrame ==
    [][ \A s \in Sessions, id \in Ids :
          /\ \A d \in GoalUpdates :
                \A g \in {r \in goals : r.id = id /\ r.user_id = session[s]._user_id} :
                   (update_goal(s, id, d) /\ LoggedIn(s)) =>
                      /\ last'.status = 200
                      /\ UNCHANGED << users, expenses, incomes, investments, budgets >>
                      /\ d = {} => goals' = goals
                      /\ \E g2 \in goals' :
                            /\ goals' \ {g2} = goals \ {g}
                            /\ g2.id = g.id
                            /\ g2.user_id = g.user_id
                            /\ g2.name = Submitted(d, "name", g.name)
                            /\ g2.target_amount = Submitted(d, "target_amount", g.target_amount)
                            /\ g2.current_amount
                                  = Submitted(d, "current_amount", g.current_amount)
                            /\ g2.description = Submitted(d, "description", g.description)
                            /\ g2.target_date =
                                  IF "target_date" \in Keys(d)
                                  THEN IF Submitted(d, "target_date", "") = "" THEN NoneVal
                                       ELSE Some(strptime(Submitted(d, "target_date", "")))
                                  ELSE g.target_date
          /\ \A d \in InvestmentUpdates :
                \A v \in {r \in investments :
                             r.id = id /\ r.user_id = session[s]._user_id} :
                   (update_investment(s, id, d) /\ LoggedIn(s)) =>
                      /\ last'.status = 200
                      /\ UNCHANGED << users, expenses, incomes, goals, budgets >>
                      /\ d = {} => investments' = investments
                      /\ \E v2 \in investments' :
                            /\ investments' \ {v2} = investments \ {v}
                            /\ v2.id = v.id
                            /\ v2.user_id = v.user_id
                            /\ v2.name = Submitted(d, "name", v.name)
                            /\ v2.type = Submitted(d, "type", v.type)
                            /\ v2.amount = Submitted(d, "amount", v.amount)
                            /\ v2.current_value
                                  = Submitted(d, "current_value", v.current_value)
                            /\ v2.notes = Submitted(d, "notes", v.notes)
                            /\ v2.purchase_date =
                                  IF "purchase_date" \in Keys(d)
                                  THEN strptime(Submitted(d, "purchase_date", ""))
                                  ELSE v.purchase_date ]_vars

\* A PUT has just set the current amount and the target date of a goal and left
\* its name and target amount, the table holding a second goal.
C12_Witness ==
    /\ last.op = "update_goal"
    /\ last.status = 200
    /\ Cardinality(goals) = 2
    /\ \E g \in goals :
          /\ g.id = last.arg
          /\ g.user_id = last.uid
          /\ g.current_amount = 1
          /\ g.target_date = Some(strptime("2024-01-15"))
          /\ g.name = "car"
          /\ g.target_amount = 2

\* What the claim says of one row of the budget page, but for the lower bound
\* of the percentage: the percentage is spent / budget * 100 capped at 100 for a
\* positive budget and 0 otherwise, never above 100, and the status is danger
\* when spent exceeds a positive budget, warning when spent is above 70% and at
\* most 100% of the budget, success otherwise.
BudgetRowOk(row) ==
    LET b == row.budget_amount
        sp == row.spent_amount
        p == row.percentage
    IN /\ p[2] > 0
       /\ b > 0 => IF sp * 100 > 100 * b THEN p[1] = 100 * p[2]
                   ELSE p[1] * b = sp * 100 * p[2]
       /\ b <= 0 => p[1] = 0
       /\ p[1] <= 100 * p[2]
       /\ row.status \in {"danger", "warning", "success"}
       /\ row.status = "danger" <=> (b > 0 /\ sp > b)
       /\ row.status = "warning" <=> (100 * sp > 70 * b /\ sp <= b)
       /\ b = 0 => row.status = "success"

\* The page has a row for each default category, in order, with the amount of
\* the caller's budget of that category.
BudgetRowsOfCaller ==
    /\ Len(last.body) = Len(default_expense_categories)
    /\ \A i \in DOMAIN last.body :
          /\ last.body[i].category = default_expense_categories[i]
          /\ \E b \in budgets :
                /\ b.user_id = last.uid
                /\ b.category = last.body[i].category
                /\ b.amount = last.body[i].budget_amount

\* C13 as stated: every row of the budget page is as BudgetRowOk says and its
\* percentage lies between 0 and 100.
C13_BudgetDisplayRows ==
    (last.op = "budget_planner" /\ last.status = 200) =>
        /\ BudgetRowsOfCaller
        /\ \A i \in DOMAIN last.body :
              /\ BudgetRowOk(last.body[i])
              /\ last.body[i].percentage[1] >= 0

\* What holds of C13: every row of the budget page is as BudgetRowOk says; its
\* percentage is at most 100, and at least 0 when the spending is not negative.
C13_BudgetDisplayRowsUpperBound ==
    (last.op = "budget_planner" /\ last.status = 200) =>
        /\ BudgetRowsOfCaller
        /\ \A i \in DOMAIN last.body :
              /\ BudgetRowOk(last.body[i])
              /\ last.body[i].spent_amount >= 0 => last.body[i].percentage[1] >= 0

\* The page has just shown a category over its budget (danger, the percentage
\* capped at 100), the table holding an expense of another user too.
C13_Witness ==
    /\ last.op = "budget_planner"
    /\ last.status = 200
    /\ \E i \in DOMAIN last.body :
          /\ last.body[i].status = "danger"
          /\ last.body[i].percentage = << 100, 1 >>
          /\ last.body[i].spent_amount > last.body[i].budget_amount
          /\ last.body[i].budget_amount > 0
    /\ \E e \in expenses : e.user_id # last.uid

\* The <<id, category, amount>> entries of the expenses of uid with a default
\* category, and with another category.
DefaultEntries(uid) ==
    {e \in ExpenseEntries(uid) : e[2] \in Range(default_expense_categories)}
OtherEntries(uid) == ExpenseEntries(uid) \ DefaultEntries(uid)

\* The exact sum of the spent amounts of the rows of the page.
SpentTotal(rows) ==
    Total({<< i, rows[i].category, rows[i].spent_amount >> : i \in DOMAIN rows})

\* The spent amount of every row is the sum of the amounts of the caller's
\* expenses of exactly that category.
SpentByCategory ==
    \A i \in DOMAIN last.body :
        last.body[i].spent_amount
            = Total({e \in ExpenseEntries(last.uid) : e[2] = last.body[i].category})

\* C14 as stated: on the budget page the spent amount of a default category is
\* the sum of the amounts of the caller's expenses of exactly that category, and
\* the spent amounts sum to the total of the caller's expenses only if every
\* expense of the caller has a default category.
C14_BudgetSpending ==
    (last.op = "budget_planner" /\ last.status = 200) =>
        /\ SpentByCategory
        /\ SpentTotal(last.body) = Total(ExpenseEntries(last.uid))
              => OtherEntries(last.uid) = {}

\* C14, amended: where the magnitudes of the caller's amounts sum to less than
\* 2^Precision, so that no float addition rounds, the spent amount of a default
\* category is the sum of the amounts of the caller's expenses of exactly that
\* category, and the spent amounts sum to the total of the caller's expenses
\* exactly when the amounts of the expenses of other categories sum to 0.
C14_BudgetSpendingOfDefaults ==
    (/\ last.op = "budget_planner"
     /\ last.status = 200
     /\ Magnitude(ExpenseEntries(last.uid)) < 2 ^ Precision) =>
        /\ SpentByCategory
        /\ SpentTotal(last.body) = Total(DefaultEntries(last.uid))
        /\ SpentTotal(last.body) = Total(ExpenseEntries(last.uid))
              <=> Total(OtherEntries(last.uid)) = 0

\* The page has just been shown to a user with an expense of a default category
\* and one of another category, whose amount is in no row.
C14_Witness ==
    /\ last.op = "budget_planner"
    /\ last.status = 200
    /\ Magnitude(ExpenseEntries(last.uid)) < 2 ^ Precision
    /\ \E e \in OtherEntries(last.uid) : e[3] > 0
    /\ \E e \in DefaultEntries(last.uid) : e[3] > 0
    /\ SpentTotal(last.body) # Total(ExpenseEntries(last.uid))

\* The titles of the suggestions of the last response.
Titles == {last.body[i].title : i \in DOMAIN last.body}

\* The income/expense ratio suggestions are as the claim says, for the caller's
\* totals of expenses te and of income ti.
RatioSuggestionsOk(te, ti) ==
    /\ ti > 0 =>
          /\ << "Reduce Expenses" >> \in Titles <=> 10 * te > 9 * ti
          /\ << "Great Savings Rate" >> \in Titles <=> 2 * te < ti
    /\ ti <= 0 =>
          /\ << "Reduce Expenses" >> \notin Titles
          /\ << "Great Savings Rate" >> \notin Titles
    /\ ~(<< "Reduce Expenses" >> \in Titles /\ << "Great Savings Rate" >> \in Titles)

\* C15 as stated: whenever the suggestions are requested by a user whose total
\* income is positive they contain Reduce Expenses exactly when total_expenses /
\* total_income > 0.9 and Great Savings Rate exactly when it is < 0.5, never
\* both; with a total income of 0 or less they contain neither.
C15_RatioSuggestion ==
    last.op = "suggestions" /\ last.status \in {200, 500} =>
        RatioSuggestionsOk(Total(ExpenseEntries(last.uid)), Total(IncomeEntries(last.uid)))

\* What holds of C15: the same of every request the handler answers, where the
\* magnitudes of the amounts sum to less than 2^Precision (no addition rounds).
C15_RatioSuggestionWhenAnswered ==
    (/\ last.op = "suggestions"
     /\ last.status = 200
     /\ Magnitude(ExpenseEntries(last.uid)) < 2 ^ Precision
     /\ Magnitude(IncomeEntries(last.uid)) < 2 ^ Precision) =>
        RatioSuggestionsOk(Total(ExpenseEntries(last.uid)), Total(IncomeEntries(last.uid)))

\* The total of the caller's expenses of category c.
CategoryTotal(uid, c) == Total({e \in ExpenseEntries(uid) : e[2] = c})

\* The categories a High ... Expenses warning of the last response names.
HighTitles == {ti \in Titles : Len(ti) = 3 /\ ti[1] = "High" /\ ti[3] = "Expenses"}

\* The high-category warning is as the claim says.
HighCategoryOk(uid) ==
    LET categories == {e[2] : e \in ExpenseEntries(uid)}
        largest == {c \in categories :
                      \A c2 \in categories : CategoryTotal(uid, c2) <= CategoryTotal(uid, c)}
    IN /\ HighTitles # {} <=>
             /\ ExpenseEntries(uid) # {}
             /\ \E c \in largest :
                   10 * CategoryTotal(uid, c) > 4 * Total(ExpenseEntries(uid))
       /\ Cardinality({i \in DOMAIN last.body : last.body[i].title \in HighTitles}) <= 1
       /\ \A ti \in HighTitles : ti[2] \in largest

\* C16 as stated: whenever the suggestions are requested they contain a High
\* <category> Expenses warning exactly when the caller has an expense and the
\* largest per-category total is over 40% of the caller's total expenses; at
\* most one, naming a category of the largest total.
C16_HighCategorySuggestion ==
    last.op = "suggestions" /\ last.status \in {200, 500} => HighCategoryOk(last.uid)

\* What holds of C16: the same of every request the handler answers, where no
\* addition rounds.
C16_HighCategorySuggestionWhenAnswered ==
    (/\ last.op = "suggestions"
     /\ last.status = 200
     /\ Magnitude(ExpenseEntries(last.uid)) < 2 ^ Precision) =>
        HighCategoryOk(last.uid)

\* The dashboard and the summary answered one after the other, in either order,
\* to the same user over the same records: the pair <<dashboard, summary>> of
\* the two response bodies of a step, << >> at any other step.
DashboardAndSummary ==
    IF /\ last.status = 200
       /\ last'.status = 200
       /\ last.uid = last'.uid
       /\ tables' = tables
    THEN IF last.op = "index" /\ last'.op = "get_financial_summary"
         THEN << last.body[1], last'.body[1] >>
         ELSE IF last.op = "get_financial_summary" /\ last'.op = "index"
              THEN << last'.body[1], last.body[1] >>
              ELSE << >>
    ELSE << >>

\* The two views report the same totals, and the summary's net_worth is its
\* total_income - total_expenses + total_investments.
SameTotals(dashboard, summary) ==
    /\ dashboard.total_expenses = summary.total_expenses
    /\ dashboard.total_income = summary.total_income
    /\ summary.net_worth =
          float_add(float_sub(summary.total_income, summary.total_expenses),
                    summary.total_investments)

\* C17 as stated: for the same user and the same records the dashboard and GET
\* /api/summary report the same total_expenses and total_income, the summary's
\* net_worth is total_income - total_expenses + total_investments, and the
\* dashboard's net_worth equals the summary's net_worth.
C17_NetWorthAgrees ==
    [][DashboardAndSummary # << >> =>
          /\ SameTotals(DashboardAndSummary[1], DashboardAndSummary[2])
          /\ DashboardAndSummary[1].net_worth = DashboardAndSummary[2].net_worth]_vars

\* What holds of C17: the totals agree and the summary's net_worth is as
\* stated; the dashboard's net_worth is total_income - total_expenses, which is
\* the summary's net_worth where the total of the investments is 0.
C17_NetWorthAgreesWithoutInvestments ==
    [][DashboardAndSummary # << >> =>
          /\ SameTotals(DashboardAndSummary[1], DashboardAndSummary[2])
          /\ DashboardAndSummary[1].net_worth =
                float_sub(DashboardAndSummary[1].total_income,
                          DashboardAndSummary[1].total_expenses)
          /\ DashboardAndSummary[2].total_investments = 0 =>
                DashboardAndSummary[1].net_worth = DashboardAndSummary[2].net_worth]_vars
====
